---- MODULE Spec2Model ----
(***************************************************************************)
(* A model of the SAT solver of this repository: the CNF data model of     *)
(* definitions.rs (literals, clauses, formulas and their evaluation under  *)
(* a partial assignment), the sequential DPLL engine of sdpll.rs and the   *)
(* parallel engine of pdpll.rs.                                            *)
(*                                                                         *)
(* A variable (RefLiteral) is an integer, which stands for the variable of  *)
(* that decimal name; a SignedLiteral is a record of its tag, Id or Not,    *)
(* and its variable.  A clause is the set of its signed literals (a HashSet *)
(* in the code), a formula the sequence of its clauses (a Vec).             *)
(***************************************************************************)
EXTENDS Integers, Sequences, FiniteSets, TLC

\* ------------------------------------------------------------------ bounds

\* Variables 1..NumVars of the formulas solved in Spec.
NumVars == 2
\* Size of a formula solved in Spec: its clauses plus its literal occurrences.
MaxSize == 6
\* The parallel engine is built with par_factor in 0..MaxParFactor.
MaxParFactor == 1
\* Variables and formula size of the inputs of SpecEval.
EvalVars == 3
EvalMaxSize == 6
\* Size of a formula searched in SpecPrepass.
PrepassMaxSize == 5
LiveMaxSize == 6
ParseMaxParts == 2
ParseMaxSize == 8
\* Variables of the integer clauses of SpecDimacs, and the size of its inputs:
\* the clauses plus the integers in them.
DimacsVars == 2
DimacsMaxSize == 5
\* Variables and formula size of the inputs of SpecHeur, and the largest
\* max_literals mom is called with there.
HeurVars == 2
HeurMaxSize == 6
MaxMom == 2

VARIABLES
    formula,      \* CNF under construction, then the solver's self.formula
    phase,        \* "build" | "solving" | "done" | "eval"
    engine,       \* "none" | "seq" (sdpll.rs) | "par" (pdpll.rs)
    par_factor,   \* PDPLLSolver.depth_par_factor
    frames,       \* the live calls of dpll_recursive, by their path from the root
    verdict,      \* what solve() returned: "none" | "SAT" | "UNSAT" | "panic"
    seen,         \* the verdicts of the earlier solvers run on this formula
    units,        \* unit propagations made by the current solve()
    decisions,    \* decisions made by the current solve()
    tasks,        \* parallel tasks started by the current solve()
    em,           \* SpecEval: the assignment under construction
    eout          \* SpecEval: the last evaluation made and its result

vars == <<formula, phase, engine, par_factor, frames, verdict, seen,
          units, decisions, tasks, em, eout>>

solverVars == <<engine, par_factor, frames, verdict, seen, units, decisions, tasks>>

\* ------------------------------------------------------- literals (definitions.rs)

\* i32::MIN
MinI32 == 0 - 2147483647 - 1

\* RefLiteral::identity: SignedLiteral::Id(v)
Id(v) == [tag |-> "Id", literal |-> v]

\* RefLiteral::not: SignedLiteral::Not(v)
Not(v) == [tag |-> "Not", literal |-> v]

\* SignedLiteral::literal
literal(l) == l.literal

\* SignedLiteral::complement
complement(l) == IF l.tag = "Id" THEN Not(l.literal) ELSE Id(l.literal)

\* LiteralValue::negate
negate(value) ==
    CASE value = "True" -> "False"
      [] value = "False" -> "True"
      [] OTHER -> "Unassigned"

\* Assignments::new
Assignments_new == [v \in {} |-> "Unassigned"]

\* Assignments::assign (HashMap::insert: an existing binding is overwritten)
assign(m, v, value) == [x \in DOMAIN m \cup {v} |-> IF x = v THEN value ELSE m[x]]

\* The lookup of SignedLiteral::evaluate: get(..).unwrap_or(Unassigned)
lookup(m, v) == IF v \in DOMAIN m THEN m[v] ELSE "Unassigned"

\* Mutant: the Not polarity is not negated
SignedLiteral_evaluate_neg(l, m) == lookup(m, literal(l))

\* SignedLiteral::evaluate
SignedLiteral_evaluate(l, m) ==
    IF l.tag = "Id" THEN lookup(m, literal(l)) ELSE negate(lookup(m, literal(l)))

\* -------------------------------------------------------- clauses (definitions.rs)

ClauseValue_True == [tag |-> "True", literals |-> {}]
ClauseValue_False == [tag |-> "False", literals |-> {}]
ClauseValue_Clause(c) == [tag |-> "Clause", literals |-> c]

\* ClauseRef::new
ClauseRef_new == {}

\* Mutant: a clause whose literals are all False is left as an empty clause
ClauseRef_evaluate_empty(c, m) ==
    IF \E l \in c : SignedLiteral_evaluate(l, m) = "True"
    THEN ClauseValue_True
    ELSE LET mark_for_removal == {l \in c : SignedLiteral_evaluate(l, m) = "False"}
         IN  IF mark_for_removal # {}
             THEN LET deep_clone == c \ mark_for_removal
                  IN  ClauseValue_Clause(deep_clone)
             ELSE ClauseValue_Clause(c)

\* Mutant: the literals that are False are not removed from the residual clause
ClauseRef_evaluate_keep(c, m) ==
    IF \E l \in c : SignedLiteral_evaluate(l, m) = "True"
    THEN ClauseValue_True
    ELSE LET mark_for_removal == {l \in c : SignedLiteral_evaluate(l, m) = "False"}
         IN  IF mark_for_removal # {}
             THEN LET deep_clone == c \ mark_for_removal
                  IN  IF deep_clone = {} THEN ClauseValue_False
                      ELSE ClauseValue_Clause(c)
             ELSE ClauseValue_Clause(c)

\* ClauseRef::evaluate
ClauseRef_evaluate(c, m) ==
    IF \E l \in c : SignedLiteral_evaluate(l, m) = "True"
    THEN ClauseValue_True
    ELSE LET mark_for_removal == {l \in c : SignedLiteral_evaluate(l, m) = "False"}
         IN  IF mark_for_removal # {}
             THEN LET deep_clone == c \ mark_for_removal
                  IN  IF deep_clone = {} THEN ClauseValue_False
                      ELSE ClauseValue_Clause(deep_clone)
             ELSE ClauseValue_Clause(c)

\* ClauseRef::is_unit_clause: the set holding the sole literal, or {} for None
is_unit_clause(c) == IF Cardinality(c) = 1 THEN c ELSE {}

\* ------------------------------------------------------- formulas (definitions.rs)

CNFValue_SAT == [tag |-> "SAT", clauses |-> <<>>]
CNFValue_UNSAT == [tag |-> "UNSAT", clauses |-> <<>>]
CNFValue_Formula(f) == [tag |-> "Formula", clauses |-> f]

\* CNF::new
CNF_new == <<>>

\* Insertion of x before 0-based index i (Vec::insert)
Vec_insert(s, i, x) == SubSeq(s, 1, i) \o <<x>> \o SubSeq(s, i + 1, Len(s))

\* iter().position(pred): the 0-based index of the first clause larger than c,
\* or -1 for None
position_larger(f, c) ==
    LET hits == {i \in 1..Len(f) : Cardinality(f[i]) > Cardinality(c)}
    IN  IF hits = {} THEN 0 - 1
        ELSE (CHOOSE i \in hits : \A j \in hits : i <= j) - 1

\* CNF::add_clause
add_clause(f, c) ==
    LET pos == position_larger(f, c)
        index == IF pos < 0 THEN 0 ELSE pos
    IN  Vec_insert(f, index, c)

RECURSIVE CNF_evaluate_loop(_, _, _, _)
\* Mutant: no is_empty test at the end, an empty residual formula is returned
CNF_evaluate_loop_no_empty_check(f, i, m, clauses) ==
    IF i > Len(f)
    THEN CNFValue_Formula(clauses)
    ELSE LET cv == ClauseRef_evaluate(f[i], m)
         IN  CASE cv.tag = "False" -> CNFValue_UNSAT
               [] cv.tag = "Clause" ->
                    CNF_evaluate_loop(f, i + 1, m, Append(clauses, cv.literals))
               [] OTHER -> CNF_evaluate_loop(f, i + 1, m, clauses)

\* Mutant: a residual clause is inserted at the front instead of pushed
CNF_evaluate_loop_prepend(f, i, m, clauses) ==
    IF i > Len(f)
    THEN IF clauses = <<>> THEN CNFValue_SAT ELSE CNFValue_Formula(clauses)
    ELSE LET cv == ClauseRef_evaluate(f[i], m)
         IN  CASE cv.tag = "False" -> CNFValue_UNSAT
               [] cv.tag = "Clause" ->
                    CNF_evaluate_loop(f, i + 1, m, <<cv.literals>> \o clauses)
               [] OTHER -> CNF_evaluate_loop(f, i + 1, m, clauses)

\* The loop of CNF::evaluate from clause i on, with the clauses pushed so far
CNF_evaluate_loop(f, i, m, clauses) ==
    IF i > Len(f)
    THEN IF clauses = <<>> THEN CNFValue_SAT ELSE CNFValue_Formula(clauses)
    ELSE LET cv == ClauseRef_evaluate(f[i], m)
         IN  CASE cv.tag = "False" -> CNFValue_UNSAT
               [] cv.tag = "Clause" ->
                    CNF_evaluate_loop(f, i + 1, m, Append(clauses, cv.literals))
               [] OTHER -> CNF_evaluate_loop(f, i + 1, m, clauses)

\* CNF::evaluate
CNF_evaluate(f, m) == CNF_evaluate_loop(f, 1, m, <<>>)

\* Mutant: a decided value is evaluated again as if it were the empty formula
CNFValue_evaluate_again(value, m) ==
    IF value.tag = "Formula" THEN CNF_evaluate(value.clauses, m)
    ELSE CNF_evaluate(CNF_new, m)

\* CNFValue::evaluate
CNFValue_evaluate(value, m) ==
    IF value.tag = "Formula" THEN CNF_evaluate(value.clauses, m) ELSE value

\* CNF::iter_literals, as the set of the literals it yields
iter_literals(f) == UNION {f[i] : i \in 1..Len(f)}

\* What an operation that may panic makes: a value, or the panic
Returns(v) == [panic |-> FALSE, v |-> v]
Panic == [panic |-> TRUE, v |-> 0]

\* i32::abs: the negation of i32::MIN overflows; a build with overflow checks
\* (debug) panics, one without (release) returns i32::MIN
abs(n, overflow_checks) ==
    IF n = MinI32 THEN (IF overflow_checks THEN Panic ELSE Returns(MinI32))
    ELSE Returns(IF n < 0 THEN 0 - n ELSE n)

\* Literal::new(name): the variable of that name; the name is the decimal
\* string of a number, the variable is modelled by the number
Literal_new(lname) == lname

\* The literal From<DimacsCnf> makes of the integer n
signed_literal_of(n, overflow_checks) ==
    LET lname == abs(n, overflow_checks)
    IN  IF lname.panic THEN Panic
        ELSE IF n > 0 THEN Returns(Id(Literal_new(lname.v)))
        ELSE Returns(Not(Literal_new(lname.v)))

\* ClauseBuilder::add_literal (HashSet::insert)
add_literal(c, l) == c \cup {l}

RECURSIVE clause_of(_, _, _)
\* The inner loop of From<DimacsCnf>: the literals of the integers of clause
\* added to the builder c
clause_of(c, clause, overflow_checks) ==
    IF clause = <<>> THEN Returns(c)
    ELSE LET l == signed_literal_of(Head(clause), overflow_checks)
         IN  IF l.panic THEN Panic
             ELSE clause_of(add_literal(c, l.v), Tail(clause), overflow_checks)

RECURSIVE CNF_from(_, _, _)
\* The outer loop of From<DimacsCnf>: the clauses of dimacs added to cnf
CNF_from(cnf, dimacs, overflow_checks) ==
    IF dimacs = <<>> THEN Returns(cnf)
    ELSE LET c == clause_of(ClauseRef_new, Head(dimacs), overflow_checks)
         IN  IF c.panic THEN Panic
             ELSE CNF_from(add_clause(cnf, c.v), Tail(dimacs), overflow_checks)

\* ------------------------------------------------------------ inputs

Literals(n) == {Id(v) : v \in 1..n} \cup {Not(v) : v \in 1..n}

Clauses(n) == SUBSET Literals(n)

\* The clauses of two literals over two different variables of 1..n
BinaryClauses(n) ==
    {c \in Clauses(n) : Cardinality(c) = 2 /\ Cardinality({literal(l) : l \in c}) = 2}

Values == {"True", "False"}

\* The size of a formula: its clauses plus its literal occurrences
RECURSIVE Size(_)
Size(f) == IF f = <<>> THEN 0 ELSE 1 + Cardinality(Head(f)) + Size(Tail(f))

\* ---------------------------------------------------- heuristics (definitions.rs)

\* All the orders in which a HashSet may yield the elements of S
RECURSIVE Orders(_)
Orders(S) ==
    IF S = {} THEN {<<>>}
    ELSE UNION {{<<x>> \o o : o \in Orders(S \ {x})} : x \in S}

\* Mutant: the impure set is not consulted
pure_literals_step_no_impure(s, l) ==
    LET abs_literal == Id(literal(l))
    IN  IF complement(l) \in s.pure
        THEN [pure |-> s.pure \ {complement(l)},
              impure |-> s.impure \cup {abs_literal}]
        ELSE [pure |-> s.pure \cup {l}, impure |-> s.impure]

\* The closure of CNF::pure_literals applied to one literal occurrence;
\* s is the pair of sets [pure, impure]
pure_literals_step(s, l) ==
    LET abs_literal == Id(literal(l))
    IN  IF abs_literal \in s.impure THEN s
        ELSE IF complement(l) \in s.pure
             THEN [pure |-> s.pure \ {complement(l)},
                   impure |-> s.impure \cup {abs_literal}]
             ELSE [pure |-> s.pure \cup {l}, impure |-> s.impure]

RECURSIVE pure_literals_fold(_, _)
pure_literals_fold(s, occ) ==
    IF occ = <<>> THEN s
    ELSE pure_literals_fold(pure_literals_step(s, Head(occ)), Tail(occ))

RECURSIVE pure_literals_scan(_, _, _)
\* The states the scan of CNF::pure_literals can be in after the clauses before
\* clause i, starting from the states S: the clauses are scanned in order, the
\* literals of a clause in any order (HashSet iteration)
pure_literals_scan(f, i, S) ==
    IF i > Len(f) THEN S
    ELSE pure_literals_scan(f, i + 1,
            {pure_literals_fold(s, o) : s \in S, o \in Orders(f[i])})

\* CNF::pure_literals: the sets it can return
pure_literals(f) ==
    {s.pure : s \in pure_literals_scan(f, 1, {[pure |-> {}, impure |-> {}]})}

\* The first clause of minimum length (the fold of CNF::mom), 0 for None
min_len_clause(f) ==
    IF f = <<>> THEN 0
    ELSE CHOOSE i \in 1..Len(f) :
            /\ \A j \in 1..Len(f) : Cardinality(f[i]) <= Cardinality(f[j])
            /\ \A j \in 1..(i - 1) : Cardinality(f[j]) > Cardinality(f[i])

\* literal_counts of CNF::mom: the occurrences of variable v in the formula
RECURSIVE literal_count(_, _)
literal_count(f, v) ==
    IF f = <<>> THEN 0
    ELSE Cardinality({l \in Head(f) : literal(l) = v}) + literal_count(Tail(f), v)

\* The literals of s, mapped to their variables
RECURSIVE to_variables(_)
to_variables(s) ==
    IF s = <<>> THEN <<>> ELSE <<literal(Head(s))>> \o to_variables(Tail(s))

RECURSIVE select_count(_, _, _)
\* The variables of s that occur n times in f, in their order in s
select_count(f, s, n) ==
    IF s = <<>> THEN <<>>
    ELSE (IF literal_count(f, Head(s)) = n THEN <<Head(s)>> ELSE <<>>)
         \o select_count(f, Tail(s), n)

RECURSIVE stable_sort_desc(_, _, _)
\* sort_by(|a, b| b.1.cmp(&a.1)): counts n, n-1, .., 0 in turn, each class in
\* the order of s
stable_sort_desc(f, s, n) ==
    IF n < 0 THEN <<>>
    ELSE select_count(f, s, n) \o stable_sort_desc(f, s, n - 1)

take(s, k) == SubSeq(s, 1, IF k < Len(s) THEN k ELSE Len(s))

\* CNF::mom(max_literals): the lists it can return
mom(f, max_literals) ==
    LET i == min_len_clause(f)
    IN  IF i = 0 THEN {<<>>}
        ELSE {take(stable_sort_desc(f, to_variables(o), Size(f)), max_literals)
                : o \in Orders(f[i])}

\* ------------------------------------------------- the formulas of tests.rs

RECURSIVE add_clauses(_, _)
\* CNF::new().add_clause(c1).add_clause(c2)...: cs in order onto f
add_clauses(f, cs) ==
    IF cs = <<>> THEN f ELSE add_clauses(add_clause(f, Head(cs)), Tail(cs))

\* case_1: (a v b) ^ (~a v b), as the test builds it
case_1 == add_clauses(CNF_new, << {Id(1), Id(2)}, {Not(1), Id(2)} >>)

\* case_2: (a v b) ^ (~a v c) ^ (~b v ~c)
case_2 == add_clauses(CNF_new,
            << {Id(1), Id(2)}, {Not(1), Id(3)}, {Not(2), Not(3)} >>)

\* case_3: the eight clauses over p1..p7
case_3 == add_clauses(CNF_new,
            << {Not(1), Id(2)}, {Not(1), Id(3), Id(5)}, {Not(2), Id(4)},
               {Not(3), Not(4)}, {Id(1), Id(5), Not(2)}, {Id(2), Id(3)},
               {Id(2), Not(3), Id(7)}, {Id(6), Not(5)} >>)

\* case_4: all eight 3-literal clauses over x, y, z
case_4 == add_clauses(CNF_new,
            << {Id(1), Id(2), Id(3)}, {Id(1), Id(2), Not(3)},
               {Id(1), Not(2), Id(3)}, {Id(1), Not(2), Not(3)},
               {Not(1), Id(2), Id(3)}, {Not(1), Id(2), Not(3)},
               {Not(1), Not(2), Id(3)}, {Not(1), Not(2), Not(3)} >>)

TestFormulas == <<case_1, case_2, case_3, case_4>>

\* The formula (a v ~a) ^ (b v ~b) ^ (c v ~c), built clause by clause
excluded_middle == add_clauses(CNF_new,
            << {Id(1), Not(1)}, {Id(2), Not(2)}, {Id(3), Not(3)} >>)

\* ------------------------------------------------ the engines (sdpll.rs, pdpll.rs)

\* The value that satisfies a literal: Id -> True, Not -> False
satisfying_value(l) == IF l.tag = "Id" THEN "True" ELSE "False"

\* Mutant: a pure literal's variable is bound to the value that falsifies it
pure_assignment_negated(pl) ==
    {m \in [{literal(l) : l \in pl} -> Values] :
        \A v \in DOMAIN m : \E l \in pl :
            literal(l) = v /\ negate(satisfying_value(l)) = m[v]}

\* The assignments the pure-literal pass of solve() can build from the set pl
pure_assignment(pl) ==
    {m \in [{literal(l) : l \in pl} -> Values] :
        \A v \in DOMAIN m : \E l \in pl : literal(l) = v /\ satisfying_value(l) = m[v]}

\* Mutant: the last unit clause is taken
first_unit_last(f) ==
    LET hits == {i \in 1..Len(f) : is_unit_clause(f[i]) # {}}
    IN  IF hits = {} THEN {}
        ELSE is_unit_clause(f[CHOOSE i \in hits : \A j \in hits : i >= j])

\* The literal of the first unit clause of f, as a set ({} when there is none)
first_unit(f) ==
    LET hits == {i \in 1..Len(f) : is_unit_clause(f[i]) # {}}
    IN  IF hits = {} THEN {}
        ELSE is_unit_clause(f[CHOOSE i \in hits : \A j \in hits : i <= j])

\* Mutant: the random choice is made among the literals of the solver's formula
random_choice_input(f) == {literal(l) : l \in iter_literals(formula)}

\* iter_literals().choose(rng): the variables a random choice can give
\* ({} when choose returns None and unwrap panics)
random_choice(f) == {literal(l) : l \in iter_literals(f)}

\* The variables p a decision at a node with residual f can pick
choice_of_p(f, vdi) ==
    IF vdi = "RandomDecision" THEN random_choice(f)
    ELSE LET firsts == {l[1] : l \in {r \in mom(f, 1) : r # <<>>}}
             empty == \E r \in mom(f, 1) : r = <<>>
         IN  firsts \cup (IF empty THEN random_choice(f) ELSE {})

\* A call of dpll_recursive(formula, m, di) that has not run yet
\* Mutant: the callee does not receive the binding of its caller
Call_unbound(value, m, vdi, depth) ==
    [st |-> "call", formula |-> value, m |-> Assignments_new, vdi |-> vdi,
     remaining_depth |-> depth, f |-> <<>>, p |-> 0, task |-> <<>>,
     val |-> "none"]

\* A call of dpll_recursive(formula, m, vdi), at its entry
Call(value, m, vdi, depth) ==
    [st |-> "call", formula |-> value, m |-> m, vdi |-> vdi,
     remaining_depth |-> depth, f |-> <<>>, p |-> 0, task |-> <<>>,
     val |-> "none"]

\* Mutant: the verdict of the first recursion is returned whatever it is
first_returns_always(val) == TRUE

\* Mutant: no early return, the second value is tried after a SAT as well
first_returns_never(val) == val = "panic"

\* What the sequential decision does with the verdict of its first recursion:
\* TRUE when it returns it, FALSE when it backtracks
first_returns(val) == val = "SAT" \/ val = "panic"

\* Mutant: a task that ended with None overwrites the SAT of a sibling
par_result_overwrite(task) ==
    IF \E i \in DOMAIN task : task[i] = "panic" THEN "panic"
    ELSE IF \E i \in DOMAIN task : task[i] = "None" THEN "UNSAT"
    ELSE "SAT"

\* Mutant: the node takes the outcome of the last task
par_result_last(task) ==
    IF \E i \in DOMAIN task : task[i] = "panic" THEN "panic"
    ELSE IF task[Len(task)] = "SAT" THEN "SAT"
    ELSE "UNSAT"

\* find_map_any(..).unwrap_or(UNSAT) over the finished tasks
par_result(task) ==
    IF \E i \in DOMAIN task : task[i] = "panic" THEN "panic"
    ELSE IF \E i \in DOMAIN task : task[i] = "SAT" THEN "SAT"
    ELSE "UNSAT"

Root == <<>>

Parent(path) == SubSeq(path, 1, Len(path) - 1)

Without(fr, path) == [q \in DOMAIN fr \ {path} |-> fr[q]]

\* ------------------------------------------------------------------ actions

evalIdle == em = Assignments_new /\ eout = [op |-> "none"]

solverIdle ==
    /\ engine = "none" /\ par_factor = 0 /\ frames = <<>>
    /\ verdict = "none" /\ seen = {}
    /\ units = 0 /\ decisions = 0 /\ tasks = 0

Init ==
    /\ formula = CNF_new
    /\ phase = "build"
    /\ solverIdle
    /\ evalIdle

\* formula = formula.add_clause(c), for a clause over 1..n within the size bound
AddClauseWithin(n, size) ==
    \E c \in Clauses(n) :
        /\ phase = "build"
        /\ Size(formula) + 1 + Cardinality(c) <= size
        /\ formula' = add_clause(formula, c)
        /\ UNCHANGED <<phase, solverVars, em, eout>>

AddClause == AddClauseWithin(NumVars, MaxSize)

\* formula = formula.add_clause(c), for a formula of two-literal clauses within
\* MaxSize, which may take one more two-literal clause
AddBinaryClauseWithin(n, size) ==
    \E c \in BinaryClauses(n) :
        /\ phase = "build"
        /\ Size(formula) <= size
        /\ \A i \in 1..Len(formula) : formula[i] \in BinaryClauses(n)
        /\ formula' = add_clause(formula, c)
        /\ UNCHANGED <<phase, solverVars, em, eout>>

AddBinaryClause == AddBinaryClauseWithin(NumVars, MaxSize)

\* One of the formulas of tests.rs, built as the test builds it
BuildTest ==
    \E k \in DOMAIN TestFormulas :
        /\ phase = "build"
        /\ formula = CNF_new
        /\ formula' = TestFormulas[k]
        /\ UNCHANGED <<phase, solverVars, em, eout>>

\* The formula of three clauses (x v ~x): a decision on it leaves the other
\* variables undecided and no unit clause
BuildExcludedMiddle ==
    /\ phase = "build"
    /\ formula = CNF_new
    /\ formula' = excluded_middle
    /\ UNCHANGED <<phase, solverVars, em, eout>>

\* SolverBuilder::build and the start of solve(): the pure-literal pass and the
\* root call of dpll_recursive.  A solver may follow another on the same formula
\* (main.rs runs the sequential one, then the parallel ones).
StartSolve(e, d) ==
    /\ phase \in {"build", "done"}
    /\ phase' = "solving"
    /\ engine' = e
    /\ par_factor' = d
    /\ seen' = IF phase = "done" THEN seen \cup {verdict} ELSE seen
    /\ verdict' = "none"
    /\ units' = 0 /\ decisions' = 0 /\ tasks' = 0
    /\ \E pl \in pure_literals(formula) : \E m \in pure_assignment(pl) :
          frames' = (Root :> Call(CNFValue_Formula(formula), m, "LazyLiteralList", d))
    /\ UNCHANGED <<formula, em, eout>>

\* DPLLSolverBuilder::new().build(formula).solve()
SolveSequential == StartSolve("seq", 0)

\* PDPLLSolverBuilder::new(par_factor).build(formula).solve()
SolveParallel == \E d \in 0..MaxParFactor : StartSolve("par", d)

\* The residual formula of the call at path: formula.evaluate(&m)
Residual(path) == CNFValue_evaluate(frames[path].formula, frames[path].m)

\* dpll_recursive, base cases: formula.evaluate(&m) is SAT or UNSAT (v => v)
BaseCase(path) ==
    /\ frames[path].st = "call"
    /\ Residual(path).tag # "Formula"
    /\ frames' = [frames EXCEPT ![path].st = "ret", ![path].val = Residual(path).tag]
    /\ UNCHANGED <<formula, phase, engine, par_factor, verdict, seen,
                   units, decisions, tasks, em, eout>>

\* dpll_recursive, unit propagation: the first unit clause of the residual
\* formula forces its literal; recursion on f with that single binding
UnitPropagation(path) ==
    /\ frames[path].st = "call"
    /\ Residual(path).tag = "Formula"
    /\ LET f == Residual(path).clauses
       IN  /\ first_unit(f) # {}
           /\ \E l \in first_unit(f) :
                frames' = [frames EXCEPT ![path].st = "unit", ![path].f = f]
                          @@ (Append(path, 1) :>
                                Call(CNFValue_Formula(f),
                                     assign(Assignments_new, literal(l), satisfying_value(l)),
                                     "RandomDecision", frames[path].remaining_depth))
    /\ units' = units + 1
    /\ UNCHANGED <<formula, phase, engine, par_factor, verdict, seen,
                   decisions, tasks, em, eout>>

\* Mutant: the depth test lets a node with no depth left fan out
FansOut_always(path) == engine = "par" /\ frames[path].remaining_depth >= 0

\* TRUE when the decision at path fans out in parallel
FansOut(path) == engine = "par" /\ frames[path].remaining_depth > 0

\* dpll_recursive, decision without fan-out (sdpll.rs, and pdpll.rs at
\* remaining_depth 0): p is chosen and first tried with True
DecideSequential(path) ==
    /\ frames[path].st = "call"
    /\ Residual(path).tag = "Formula"
    /\ ~FansOut(path)
    /\ LET f == Residual(path).clauses
       IN  /\ first_unit(f) = {}
           /\ \E p \in choice_of_p(f, frames[path].vdi) :
                frames' = [frames EXCEPT ![path].st = "first", ![path].f = f,
                                         ![path].p = p]
                          @@ (Append(path, 1) :>
                                Call(CNFValue_Formula(f),
                                     assign(Assignments_new, p, "True"),
                                     "RandomDecision", frames[path].remaining_depth))
    /\ decisions' = decisions + 1
    /\ UNCHANGED <<formula, phase, engine, par_factor, verdict, seen,
                   units, tasks, em, eout>>

\* dpll_recursive of pdpll.rs, decision with remaining_depth > 0: p is chosen and
\* the two values are handed to find_map_any
DecideParallel(path) ==
    /\ frames[path].st = "call"
    /\ Residual(path).tag = "Formula"
    /\ FansOut(path)
    /\ LET f == Residual(path).clauses
       IN  /\ first_unit(f) = {}
           /\ \E p \in choice_of_p(f, frames[path].vdi) :
                frames' = [frames EXCEPT ![path].st = "par", ![path].f = f,
                                         ![path].p = p,
                                         ![path].task = <<"pending", "pending">>]
    /\ decisions' = decisions + 1
    /\ UNCHANGED <<formula, phase, engine, par_factor, verdict, seen,
                   units, tasks, em, eout>>

\* dpll_recursive, decision: choose(..) returns None and unwrap() panics
ChoicePanics(path) ==
    /\ frames[path].st = "call"
    /\ Residual(path).tag = "Formula"
    /\ LET f == Residual(path).clauses
       IN  /\ first_unit(f) = {}
           /\ choice_of_p(f, frames[path].vdi) = {}
    /\ frames' = [frames EXCEPT ![path].st = "ret", ![path].val = "panic"]
    /\ UNCHANGED <<formula, phase, engine, par_factor, verdict, seen,
                   units, decisions, tasks, em, eout>>

\* The call at path has returned (or panicked) into a unit propagation: the
\* caller returns the same
ReturnToUnit(path) ==
    /\ path # Root
    /\ frames[path].st = "ret"
    /\ frames[Parent(path)].st = "unit"
    /\ frames' = [Without(frames, path) EXCEPT
                    ![Parent(path)].st = "ret",
                    ![Parent(path)].val = frames[path].val]
    /\ UNCHANGED <<formula, phase, engine, par_factor, verdict, seen,
                   units, decisions, tasks, em, eout>>

\* The recursion with p = True has returned SAT (or panicked): so does the caller
ReturnFirst(path) ==
    /\ path # Root
    /\ frames[path].st = "ret"
    /\ frames[Parent(path)].st = "first"
    /\ first_returns(frames[path].val)
    /\ frames' = [Without(frames, path) EXCEPT
                    ![Parent(path)].st = "ret",
                    ![Parent(path)].val = frames[path].val]
    /\ UNCHANGED <<formula, phase, engine, par_factor, verdict, seen,
                   units, decisions, tasks, em, eout>>

\* The recursion with p = True has not returned SAT: backtrack, p = False on the
\* same residual formula
Backtrack(path) ==
    /\ path # Root
    /\ frames[path].st = "ret"
    /\ frames[Parent(path)].st = "first"
    /\ ~first_returns(frames[path].val)
    /\ LET parent == frames[Parent(path)]
       IN  frames' = [Without(frames, path) EXCEPT ![Parent(path)].st = "second"]
                     @@ (Append(Parent(path), 2) :>
                            Call(CNFValue_Formula(parent.f),
                                 assign(Assignments_new, parent.p, negate("True")),
                                 "RandomDecision", parent.remaining_depth))
    /\ UNCHANGED <<formula, phase, engine, par_factor, verdict, seen,
                   units, decisions, tasks, em, eout>>

\* The recursion with p = False has returned: the caller returns its verdict
ReturnSecond(path) ==
    /\ path # Root
    /\ frames[path].st = "ret"
    /\ frames[Parent(path)].st = "second"
    /\ frames' = [Without(frames, path) EXCEPT
                    ![Parent(path)].st = "ret",
                    ![Parent(path)].val = frames[path].val]
    /\ UNCHANGED <<formula, phase, engine, par_factor, verdict, seen,
                   units, decisions, tasks, em, eout>>

\* TRUE once a task of the node has returned Some(SAT): the consumer is full
Found(task) == \E i \in DOMAIN task : task[i] = "SAT"

\* The values of PDPLLSolver::VALUES, in order
VALUES == <<"True", "False">>

\* par_bridge hands the next value of VALUES to a worker, which runs the closure:
\* the recursion with p = value at remaining_depth - 1.  A worker that saw no
\* result yet when it asked for the value may run it after a sibling has
\* returned SAT: find_map_any stops the others as soon as it can, no sooner.
StartTask(path, i) ==
    /\ frames[path].st = "par"
    /\ frames[path].task[i] = "pending"
    /\ \A j \in 1..(i - 1) : frames[path].task[j] # "pending"
    /\ frames' = [frames EXCEPT ![path].task[i] = "running"]
                 @@ (Append(path, i) :>
                        Call(CNFValue_Formula(frames[path].f),
                             assign(Assignments_new, frames[path].p, VALUES[i]),
                             "RandomDecision", frames[path].remaining_depth - 1))
    /\ tasks' = tasks + 1
    /\ UNCHANGED <<formula, phase, engine, par_factor, verdict, seen,
                   units, decisions, em, eout>>

\* TRUE once a task of the node has panicked: the panic unwinds through
\* find_map_any, which waits for the closures that run and need not start more
Unwinding(task) == \E i \in DOMAIN task : task[i] = "panic"

\* A value not yet taken when a sibling has found SAT, or has panicked, may
\* never be tried
SkipTask(path, i) ==
    /\ frames[path].st = "par"
    /\ frames[path].task[i] = "pending"
    /\ Found(frames[path].task) \/ Unwinding(frames[path].task)
    /\ frames' = [frames EXCEPT ![path].task[i] = "skipped"]
    /\ UNCHANGED <<formula, phase, engine, par_factor, verdict, seen,
                   units, decisions, tasks, em, eout>>

\* What the closure of find_map_any makes of the recursion's verdict:
\* Some(SAT) when it is SAT, None otherwise; a panic unwinds
task_outcome(val) ==
    CASE val = "SAT" -> "SAT"
      [] val = "panic" -> "panic"
      [] OTHER -> "None"

\* A task of a parallel decision ends
TaskEnds(path) ==
    /\ path # Root
    /\ frames[path].st = "ret"
    /\ frames[Parent(path)].st = "par"
    /\ frames' = [Without(frames, path) EXCEPT
                    ![Parent(path)].task[path[Len(path)]] = task_outcome(frames[path].val)]
    /\ UNCHANGED <<formula, phase, engine, par_factor, verdict, seen,
                   units, decisions, tasks, em, eout>>

\* find_map_any returns once every value is tried or skipped
Join(path) ==
    /\ frames[path].st = "par"
    /\ \A i \in DOMAIN frames[path].task :
            frames[path].task[i] \in {"SAT", "None", "panic", "skipped"}
    /\ frames' = [frames EXCEPT ![path].st = "ret",
                                ![path].val = par_result(frames[path].task)]
    /\ UNCHANGED <<formula, phase, engine, par_factor, verdict, seen,
                   units, decisions, tasks, em, eout>>

\* solve() returns dpll_recursive(..).unwrap(), or the panic reaches the caller
Finish ==
    /\ phase = "solving"
    /\ Root \in DOMAIN frames
    /\ frames[Root].st = "ret"
    /\ verdict' = frames[Root].val
    /\ phase' = "done"
    /\ frames' = <<>>
    /\ UNCHANGED <<formula, engine, par_factor, seen, units, decisions, tasks, em, eout>>

Next ==
    \/ AddClause
    \/ AddBinaryClause
    \/ BuildTest
    \/ BuildExcludedMiddle
    \/ SolveSequential
    \/ SolveParallel
    \/ \E path \in DOMAIN frames : BaseCase(path)
    \/ \E path \in DOMAIN frames : UnitPropagation(path)
    \/ \E path \in DOMAIN frames : DecideSequential(path)
    \/ \E path \in DOMAIN frames : DecideParallel(path)
    \/ \E path \in DOMAIN frames : ChoicePanics(path)
    \/ \E path \in DOMAIN frames : ReturnToUnit(path)
    \/ \E path \in DOMAIN frames : ReturnFirst(path)
    \/ \E path \in DOMAIN frames : Backtrack(path)
    \/ \E path \in DOMAIN frames : ReturnSecond(path)
    \/ \E path \in DOMAIN frames : \E i \in 1..2 : StartTask(path, i)
    \/ \E path \in DOMAIN frames : \E i \in 1..2 : SkipTask(path, i)
    \/ \E path \in DOMAIN frames : TaskEnds(path)
    \/ \E path \in DOMAIN frames : Join(path)
    \/ Finish

Spec == Init /\ [][Next]_vars

\* --------------------------------------------- SpecEval: evaluate on its own
\*
\* A formula is built with add_clause, an assignment with assign; a clause of the
\* formula or the formula is evaluated; the assignment is extended and the same
\* clause, the same formula or the CNFValue obtained is evaluated again.

AddClauseEval == AddClauseWithin(EvalVars, EvalMaxSize)

\* m.assign(v, value) while the assignment is built: any variable, any value
AssignFirst ==
    \E v \in 1..EvalVars, value \in Values :
        /\ phase \in {"build", "eval"}
        /\ eout.op = "none"
        /\ em' = assign(em, v, value)
        /\ phase' = "eval"
        /\ UNCHANGED <<formula, solverVars, eout>>

\* m.assign(v, value) after an evaluation, of a variable not yet bound: the
\* assignment is extended
AssignMore ==
    \E v \in 1..EvalVars, value \in Values :
        /\ phase = "eval"
        /\ eout.op \in {"clause", "cnf"}
        /\ v \notin DOMAIN em
        /\ em' = assign(em, v, value)
        /\ UNCHANGED <<formula, phase, solverVars, eout>>

\* formula.clauses[i].evaluate(&m)
EvaluateClause ==
    \E i \in 1..Len(formula) :
        /\ phase \in {"build", "eval"}
        /\ eout.op = "none"
        /\ eout' = [op |-> "clause", i |-> i, m |-> em,
                    val |-> ClauseRef_evaluate(formula[i], em)]
        /\ phase' = "eval"
        /\ UNCHANGED <<formula, solverVars, em>>

\* formula.evaluate(&m)
EvaluateCNF ==
    /\ phase \in {"build", "eval"}
    /\ eout.op = "none"
    /\ eout' = [op |-> "cnf", i |-> 0, m |-> em, val |-> CNF_evaluate(formula, em)]
    /\ phase' = "eval"
    /\ UNCHANGED <<formula, solverVars, em>>

\* The same clause again, under the assignment as it is now
EvaluateClauseAgain ==
    /\ eout.op = "clause"
    /\ eout' = [op |-> "clause2", i |-> eout.i, m |-> eout.m, val |-> eout.val,
                m2 |-> em, val2 |-> ClauseRef_evaluate(formula[eout.i], em)]
    /\ UNCHANGED <<formula, phase, solverVars, em>>

\* The same formula again, under the assignment as it is now
EvaluateCNFAgain ==
    /\ eout.op = "cnf"
    /\ eout' = [op |-> "cnf2", i |-> 0, m |-> eout.m, val |-> eout.val,
                m2 |-> em, val2 |-> CNF_evaluate(formula, em)]
    /\ UNCHANGED <<formula, phase, solverVars, em>>

\* value.evaluate(&m) on the CNFValue the formula evaluated to
EvaluateValue ==
    /\ eout.op = "cnf"
    /\ eout' = [op |-> "value", i |-> 0, m |-> eout.m, val |-> eout.val,
                m2 |-> em, val2 |-> CNFValue_evaluate(eout.val, em)]
    /\ UNCHANGED <<formula, phase, solverVars, em>>

\* The bindings of m on the variables D
Restrict(m, D) == [v \in D |-> m[v]]

\* value.evaluate(&m2) on the CNFValue the formula evaluated to, m2 holding
\* only the bindings made since, as dpll_recursive does; and formula.evaluate
\* under all the bindings at once
EvaluateValueAlone ==
    /\ eout.op = "cnf"
    /\ LET m2 == Restrict(em, DOMAIN em \ DOMAIN eout.m)
       IN  eout' = [op |-> "single", i |-> 0, m |-> eout.m, val |-> eout.val,
                    m2 |-> m2, val2 |-> CNFValue_evaluate(eout.val, m2),
                    val3 |-> CNF_evaluate(formula, em)]
    /\ UNCHANGED <<formula, phase, solverVars, em>>

NextEval ==
    \/ AddClauseEval
    \/ AssignFirst
    \/ AssignMore
    \/ EvaluateClause
    \/ EvaluateCNF
    \/ EvaluateClauseAgain
    \/ EvaluateCNFAgain
    \/ EvaluateValue
    \/ EvaluateValueAlone

SpecEval == Init /\ [][NextEval]_vars

\* ------------------------------- SpecPrepass: the search with and without the pre-pass
\*
\* solve() runs on the formula; then dpll_recursive is called as solve() calls
\* it, by the same engine at the same depth, but with the empty assignment in
\* place of the one of the pure-literal pass.

AddClausePrepass == AddClauseWithin(NumVars, PrepassMaxSize)

\* A formula of two-literal clauses within the bound may take one more
AddBinaryClausePrepass == AddBinaryClauseWithin(NumVars, PrepassMaxSize)

\* dpll_recursive(CNFValue::Formula(formula), Assignments::new(), di)
SearchFromEmpty ==
    /\ phase = "done"
    /\ phase' = "solving"
    /\ seen' = seen \cup {verdict}
    /\ verdict' = "none"
    /\ units' = 0 /\ decisions' = 0 /\ tasks' = 0
    /\ frames' = (Root :> Call(CNFValue_Formula(formula), Assignments_new,
                               "LazyLiteralList", par_factor))
    /\ UNCHANGED <<formula, engine, par_factor, em, eout>>

NextPrepass ==
    \/ AddClausePrepass
    \/ AddBinaryClausePrepass
    \/ (phase = "build" /\ SolveSequential)
    \/ (phase = "build" /\ SolveParallel)
    \/ SearchFromEmpty
    \/ \E path \in DOMAIN frames : BaseCase(path)
    \/ \E path \in DOMAIN frames : UnitPropagation(path)
    \/ \E path \in DOMAIN frames : DecideSequential(path)
    \/ \E path \in DOMAIN frames : DecideParallel(path)
    \/ \E path \in DOMAIN frames : ChoicePanics(path)
    \/ \E path \in DOMAIN frames : ReturnToUnit(path)
    \/ \E path \in DOMAIN frames : ReturnFirst(path)
    \/ \E path \in DOMAIN frames : Backtrack(path)
    \/ \E path \in DOMAIN frames : ReturnSecond(path)
    \/ \E path \in DOMAIN frames : \E i \in 1..2 : StartTask(path, i)
    \/ \E path \in DOMAIN frames : \E i \in 1..2 : SkipTask(path, i)
    \/ \E path \in DOMAIN frames : TaskEnds(path)
    \/ \E path \in DOMAIN frames : Join(path)
    \/ Finish

SpecPrepass == Init /\ [][NextPrepass]_vars

\* ------------------------------------------- SpecHeur: the heuristics on their own
\*
\* A formula is built with add_clause; pure_literals() or mom(k) is called on it.

AddClauseHeur == AddClauseWithin(HeurVars, HeurMaxSize)

\* formula.pure_literals()
PureLiterals ==
    \E pl \in pure_literals(formula) :
        /\ phase = "build"
        /\ eout.op = "none"
        /\ eout' = [op |-> "pure", val |-> pl]
        /\ phase' = "heur"
        /\ UNCHANGED <<formula, solverVars, em>>

\* formula.mom(k)
Mom ==
    \E k \in 0..MaxMom : \E r \in mom(formula, k) :
        /\ phase = "build"
        /\ eout.op = "none"
        /\ eout' = [op |-> "mom", k |-> k, val |-> r]
        /\ phase' = "heur"
        /\ UNCHANGED <<formula, solverVars, em>>

NextHeur ==
    \/ AddClauseHeur
    \/ PureLiterals
    \/ Mom

SpecHeur == Init /\ [][NextHeur]_vars

\* --------------------------------------- SpecDimacs: formulas from integer clauses
\*
\* The builder of dimacs.rs collects clauses of integers; CNF::from turns them
\* into a formula.

\* The non-zero integers of a clause line
DimacsInts == {n \in (0 - DimacsVars)..DimacsVars : n # 0} \cup {MinI32}

RECURSIVE DimacsSize(_)
DimacsSize(d) == IF d = <<>> THEN 0 ELSE 1 + Len(Head(d)) + DimacsSize(Tail(d))

\* DimacsCnfBuilder::parse_clause begins a clause with its first integer
\* (an empty clause is not pushed)
ParseClause ==
    \E n \in DimacsInts :
        /\ phase = "build" /\ formula = CNF_new
        /\ eout.op \in {"none", "dimacs"}
        /\ LET d == IF eout.op = "none" THEN <<>> ELSE eout.input
           IN  /\ DimacsSize(d) + 2 <= DimacsMaxSize
               /\ eout' = [op |-> "dimacs", input |-> Append(d, <<n>>)]
        /\ UNCHANGED <<formula, phase, solverVars, em>>

\* DimacsCnfBuilder::parse_clause collects one more integer of the clause
ParseInteger ==
    \E n \in DimacsInts :
        /\ phase = "build" /\ formula = CNF_new
        /\ eout.op = "dimacs"
        /\ DimacsSize(eout.input) + 1 <= DimacsMaxSize
        /\ LET d == eout.input
               k == Len(d)
           IN  eout' = [eout EXCEPT !.input = [d EXCEPT ![k] = Append(d[k], n)]]
        /\ UNCHANGED <<formula, phase, solverVars, em>>

\* CNF::from(dimacs_cnf), in a build with or without overflow checks
FromDimacs ==
    \E overflow_checks \in BOOLEAN :
        LET cnf == CNF_from(CNF_new, eout.input, overflow_checks)
        IN  /\ phase = "build" /\ formula = CNF_new
            /\ eout.op = "dimacs"
            /\ formula' = IF cnf.panic THEN formula ELSE cnf.v
            /\ phase' = IF cnf.panic THEN "panic" ELSE "converted"
            /\ UNCHANGED <<solverVars, em, eout>>

NextDimacs ==
    \/ ParseClause
    \/ ParseInteger
    \/ FromDimacs

SpecDimacs == Init /\ [][NextDimacs]_vars

\* ------------------------------------------------------------------------
\* parse_dimacs_cnf of dimacs.rs
\*
\* Text is a sequence of characters; a file is the sequence of its lines.

\* char::is_whitespace: the White_Space characters that a string here can
\* hold (tab, line feed, vertical tab, form feed, carriage return, space, next
\* line U+0085, no-break space U+00A0, ogham space mark U+1680); the others
\* (U+2000 to U+200A, U+2028, U+2029, U+202F, U+205F, U+3000) cannot be
\* written in a string, so that no text of the model holds them
White_Space == {"\t", "\n", "", "\f", "\r", " ", "", " ", " "}

is_whitespace(ch) == ch \in White_Space

\* The value of a decimal digit, -1 for any other character
digit(ch) ==
    CASE ch = "0" -> 0 [] ch = "1" -> 1 [] ch = "2" -> 2 [] ch = "3" -> 3
      [] ch = "4" -> 4 [] ch = "5" -> 5 [] ch = "6" -> 6 [] ch = "7" -> 7
      [] ch = "8" -> 8 [] ch = "9" -> 9 [] OTHER -> 0 - 1

\* Result<_, ParseIntError>
Ok(n) == [ok |-> TRUE, v |-> n]
Err == [ok |-> FALSE, v |-> 0]

RECURSIVE decimal(_, _, _)
\* The number the digits s continue after acc, accumulated with checked
\* arithmetic on the side of its sign as from_str_radix does: Err once it
\* leaves the i32 range
decimal(s, acc, negative) ==
    IF s = <<>> THEN Ok(acc)
    ELSE LET d == digit(Head(s))
         IN  IF negative
             THEN (IF acc < 0 - 214748364 \/ (acc = 0 - 214748364 /\ d > 8) THEN Err
                   ELSE decimal(Tail(s), 10 * acc - d, negative))
             ELSE (IF acc > 214748364 \/ (acc = 214748364 /\ d > 7) THEN Err
                   ELSE decimal(Tail(s), 10 * acc + d, negative))

\* s.parse::<i32>(): an optional sign and at least one digit, within i32
parse_i32(s) ==
    LET signed == s # <<>> /\ Head(s) \in {"-", "+"}
        digits == IF signed THEN Tail(s) ELSE s
    IN  IF digits = <<>> \/ \E k \in 1..Len(digits) : digit(digits[k]) < 0
        THEN Err
        ELSE decimal(digits, 0, signed /\ Head(s) = "-")

\* A usize is 64 bits wide, more than the integers here hold: it is written
\* as its decimal digits, without leading zeros

RECURSIVE usize(_)
\* The usize of the natural number n
usize(n) ==
    LET d == <<CHOOSE ch \in {"0", "1", "2", "3", "4", "5", "6", "7", "8", "9"} :
                    digit(ch) = n % 10>>
    IN  IF n < 10 THEN d ELSE usize(n \div 10) \o d

\* usize::MAX, 2^64 - 1
usize_MAX == <<"1", "8", "4", "4", "6", "7", "4", "4", "0", "7",
               "3", "7", "0", "9", "5", "5", "1", "6", "1", "5">>

RECURSIVE strip_zeros(_)
strip_zeros(s) == IF Len(s) > 1 /\ Head(s) = "0" THEN strip_zeros(Tail(s)) ELSE s

RECURSIVE digits_le(_, _)
\* a <= b, for digit sequences of the same length
digits_le(a, b) ==
    IF a = <<>> THEN TRUE
    ELSE IF digit(Head(a)) # digit(Head(b)) THEN digit(Head(a)) < digit(Head(b))
    ELSE digits_le(Tail(a), Tail(b))

\* s.parse::<usize>(): an optional + and at least one digit, at most usize::MAX
parse_usize(s) ==
    LET digits == IF s # <<>> /\ Head(s) = "+" THEN Tail(s) ELSE s
        n == strip_zeros(digits)
    IN  IF digits = <<>> \/ \E k \in 1..Len(digits) : digit(digits[k]) < 0
        THEN Err
        ELSE IF Len(n) < Len(usize_MAX) \/ (Len(n) = Len(usize_MAX) /\ digits_le(n, usize_MAX))
        THEN Ok(n)
        ELSE Err

RECURSIVE split_whitespace(_, _)
\* text.split_whitespace(), word being the part read so far
split_whitespace(text, word) ==
    IF text = <<>> THEN (IF word = <<>> THEN <<>> ELSE <<word>>)
    ELSE IF is_whitespace(Head(text))
         THEN (IF word = <<>> THEN <<>> ELSE <<word>>) \o split_whitespace(Tail(text), <<>>)
         ELSE split_whitespace(Tail(text), Append(word, Head(text)))

RECURSIVE trim_start(_)
trim_start(text) ==
    IF text # <<>> /\ is_whitespace(Head(text)) THEN trim_start(Tail(text)) ELSE text

RECURSIVE trim_end(_)
trim_end(text) ==
    IF text # <<>> /\ is_whitespace(text[Len(text)])
    THEN trim_end(SubSeq(text, 1, Len(text) - 1))
    ELSE text

\* text.trim()
trim(text) == trim_end(trim_start(text))

RECURSIVE flat_map_parse(_)
\* parts.flat_map(|s| s.parse::<i32>()).collect(): the parts that parse
flat_map_parse(parts) ==
    IF parts = <<>> THEN <<>>
    ELSE (IF parse_i32(Head(parts)).ok THEN <<parse_i32(Head(parts)).v>> ELSE <<>>)
         \o flat_map_parse(Tail(parts))

\* DimacsCnfBuilder::new(), and the current_clause_line of parse_dimacs_cnf
DimacsCnfBuilder_new ==
    [num_vars |-> usize(0), num_clauses |-> usize(0), clauses |-> <<>>,
     current_clause_line |-> <<>>, outcome |-> "reading"]

\* DimacsCnfBuilder::parse_clause
parse_clause(b, clause_line) ==
    LET clause == flat_map_parse(split_whitespace(clause_line, <<>>))
    IN  IF clause # <<>> THEN [b EXCEPT !.clauses = Append(b.clauses, clause)] ELSE b

\* DimacsCnfBuilder::parse_header
parse_header(b, header) ==
    LET parts == split_whitespace(header, <<>>)
    IN  IF Len(parts) >= 4 /\ parts[1] = <<"p">> /\ parts[2] = <<"c", "n", "f">>
             /\ parse_usize(parts[3]).ok /\ parse_usize(parts[4]).ok
        THEN [b EXCEPT !.num_vars = parse_usize(parts[3]).v,
                       !.num_clauses = parse_usize(parts[4]).v]
        ELSE [b EXCEPT !.outcome = "panic"]

\* DimacsCnfBuilder::build
build(b) ==
    IF usize(Len(b.clauses)) = b.num_clauses THEN [b EXCEPT !.outcome = "built"]
    ELSE [b EXCEPT !.outcome = "panic"]

starts_with(text, prefix) ==
    Len(text) >= Len(prefix) /\ SubSeq(text, 1, Len(prefix)) = prefix

RECURSIVE for_part(_, _, _)
\* parse_dimacs_cnf, the loop over the parts of a clause line
for_part(b, parts, is_first) ==
    IF parts = <<>> THEN b
    ELSE LET part == Head(parts)
         IN  IF part = <<"0">>
             THEN for_part([parse_clause(b, b.current_clause_line)
                                EXCEPT !.current_clause_line = <<>>],
                           Tail(parts), TRUE)
             ELSE IF is_first
             THEN for_part([b EXCEPT !.current_clause_line = @ \o part],
                           Tail(parts), FALSE)
             ELSE for_part([b EXCEPT !.current_clause_line = @ \o <<" ">> \o part],
                           Tail(parts), FALSE)

\* parse_dimacs_cnf, the body of the loop over the lines
for_line(b, text) ==
    LET line == trim(text)
    IN  IF line = <<>> \/ starts_with(line, <<"c">>) THEN b
        ELSE IF starts_with(line, <<"p", " ", "c", "n", "f">>) THEN parse_header(b, line)
        ELSE for_part(b, split_whitespace(line, <<>>), TRUE)

\* parse_dimacs_cnf, after the loop: the remaining clause, then build()
end_of_file(b) ==
    build(IF b.current_clause_line # <<>> THEN parse_clause(b, b.current_clause_line)
          ELSE b)

RECURSIVE for_lines(_, _)
for_lines(b, lines) ==
    IF lines = <<>> \/ b.outcome = "panic" THEN b
    ELSE for_lines(for_line(b, Head(lines)), Tail(lines))

\* parse_dimacs_cnf on a file of these lines: the builder at its return or panic
parse_dimacs_cnf(lines) ==
    LET b == for_lines(DimacsCnfBuilder_new, lines)
    IN  IF b.outcome = "panic" THEN b ELSE end_of_file(b)

RECURSIVE join(_)
\* The line of these parts, a space between two
join(parts) ==
    IF parts = <<>> THEN <<>>
    ELSE IF Len(parts) = 1 THEN Head(parts)
    ELSE Head(parts) \o <<" ">> \o join(Tail(parts))

\* The lines of the files read: clause lines of up to ParseMaxParts numbers
\* and one with a tab and spaces around it, one with an ogham space mark in
\* it, headers (one short, one with two
\* spaces after the p, one with a count beyond 32 bits), a comment, an empty
\* line and a blank one
Numbers == {<<"0">>, <<"1">>, <<"2">>, <<"-", "1">>}

ClauseLines ==
    {join(parts) : parts \in UNION {[1..k -> Numbers] : k \in 1..ParseMaxParts}}
    \cup {<<" ", "1", "\t", "0", " ">>, <<"2", " ", "0">>}

HeaderLines ==
    {join(<< <<"p">>, <<"c", "n", "f">>, <<"2">>, n >>) : n \in {<<"0">>, <<"1">>, <<"2">>}}
    \cup {join(<< <<"p">>, <<"c", "n", "f">> >>),
          <<"p", " ", " ", "c", "n", "f", " ", "2", " ", "0">>,
          join(<< <<"p">>, <<"c", "n", "f">>,
                  <<"3", "0", "0", "0", "0", "0", "0", "0", "0", "0">>, <<"1">> >>)}

CommentLines == {join(<< <<"c">>, <<"1">>, <<"0">> >>)}

Lines == ClauseLines \cup HeaderLines \cup CommentLines \cup {<<>>, <<" ">>}

RECURSIVE FileSize(_)
\* The lines of a file plus the parts on them
FileSize(lines) ==
    IF lines = <<>> THEN 0
    ELSE 1 + Len(split_whitespace(Head(lines), <<>>)) + FileSize(Tail(lines))

\* File::open(file_path) succeeds
OpenFile ==
    /\ phase = "build" /\ formula = CNF_new
    /\ eout.op = "none"
    /\ eout' = [op |-> "parse", file |-> <<>>, b |-> DimacsCnfBuilder_new]
    /\ UNCHANGED <<formula, phase, solverVars, em>>

\* File::open(file_path) fails: panic
OpenFails ==
    /\ phase = "build" /\ formula = CNF_new
    /\ eout.op = "none"
    /\ eout' = [op |-> "parse", file |-> <<>>,
                b |-> [DimacsCnfBuilder_new EXCEPT !.outcome = "panic"]]
    /\ UNCHANGED <<formula, phase, solverVars, em>>

\* One turn of the loop over reader.lines()
ReadLine ==
    \E line \in Lines :
        /\ eout.op = "parse" /\ eout.b.outcome = "reading"
        /\ FileSize(Append(eout.file, line)) <= ParseMaxSize
        /\ eout' = [eout EXCEPT !.file = Append(eout.file, line),
                                !.b = for_line(eout.b, line)]
        /\ UNCHANGED <<formula, phase, solverVars, em>>

\* reader.lines() is exhausted
EndOfFile ==
    /\ eout.op = "parse" /\ eout.b.outcome = "reading"
    /\ eout' = [eout EXCEPT !.b = end_of_file(eout.b)]
    /\ phase' = "parsed"
    /\ UNCHANGED <<formula, solverVars, em>>

NextParse ==
    \/ OpenFile
    \/ OpenFails
    \/ ReadLine
    \/ EndOfFile

SpecParse == Init /\ [][NextParse]_vars


\* ------------------------------------------------------------------------
\* One run of solve() on a formula within LiveMaxSize, every step of the
\* search eventually taken

AddClauseLive == AddClauseWithin(NumVars, LiveMaxSize)

AddBinaryClauseLive == AddBinaryClauseWithin(NumVars, LiveMaxSize)

\* A step of the running search: of the calling thread or of a worker task
SearchStep ==
    \/ \E path \in DOMAIN frames : BaseCase(path)
    \/ \E path \in DOMAIN frames : UnitPropagation(path)
    \/ \E path \in DOMAIN frames : DecideSequential(path)
    \/ \E path \in DOMAIN frames : DecideParallel(path)
    \/ \E path \in DOMAIN frames : ChoicePanics(path)
    \/ \E path \in DOMAIN frames : ReturnToUnit(path)
    \/ \E path \in DOMAIN frames : ReturnFirst(path)
    \/ \E path \in DOMAIN frames : Backtrack(path)
    \/ \E path \in DOMAIN frames : ReturnSecond(path)
    \/ \E path \in DOMAIN frames : \E i \in 1..2 : StartTask(path, i)
    \/ \E path \in DOMAIN frames : \E i \in 1..2 : SkipTask(path, i)
    \/ \E path \in DOMAIN frames : TaskEnds(path)
    \/ \E path \in DOMAIN frames : Join(path)
    \/ Finish

NextLive ==
    \/ AddClauseLive
    \/ AddBinaryClauseLive
    \/ (phase = "build" /\ SolveSequential)
    \/ (phase = "build" /\ SolveParallel)
    \/ \E path \in DOMAIN frames : BaseCase(path)
    \/ \E path \in DOMAIN frames : UnitPropagation(path)
    \/ \E path \in DOMAIN frames : DecideSequential(path)
    \/ \E path \in DOMAIN frames : DecideParallel(path)
    \/ \E path \in DOMAIN frames : ChoicePanics(path)
    \/ \E path \in DOMAIN frames : ReturnToUnit(path)
    \/ \E path \in DOMAIN frames : ReturnFirst(path)
    \/ \E path \in DOMAIN frames : Backtrack(path)
    \/ \E path \in DOMAIN frames : ReturnSecond(path)
    \/ \E path \in DOMAIN frames : \E i \in 1..2 : StartTask(path, i)
    \/ \E path \in DOMAIN frames : \E i \in 1..2 : SkipTask(path, i)
    \/ \E path \in DOMAIN frames : TaskEnds(path)
    \/ \E path \in DOMAIN frames : Join(path)
    \/ Finish

\* ------------------------------------------------------------------ claims

\* The thread that called solve() and every worker of the rayon pool keep
\* running: a search step that stays possible is eventually taken
SpecLive == Init /\ [][NextLive]_vars /\ WF_vars(SearchStep)

VarsOf(f) == {literal(l) : l \in iter_literals(f)}

\* Classical two-valued semantics: some total assignment of the variables of f
\* makes a literal of every clause true
Satisfiable(f) ==
    \E a \in [VarsOf(f) -> BOOLEAN] :
        \A i \in 1..Len(f) : \E l \in f[i] : a[literal(l)] = (l.tag = "Id")

\* C1 (soundness): when solve() returns SAT, in either engine, at any parallel
\* depth and whatever the random choices and the schedule were, some total
\* assignment makes every clause of the formula true.
Soundness == (phase = "done" /\ verdict = "SAT") => Satisfiable(formula)

WitnessSoundness ==
    /\ phase = "done" /\ verdict = "SAT"
    /\ formula = case_3
    /\ engine = "par" /\ tasks > 0

\* C2 (completeness): when solve() returns UNSAT, no total assignment satisfies
\* the formula; and the formula of all eight 3-literal clauses over x, y, z is
\* answered UNSAT.
Completeness ==
    /\ (phase = "done" /\ verdict = "UNSAT") => ~Satisfiable(formula)
    /\ (phase = "done" /\ formula = case_4) => verdict = "UNSAT"

WitnessCompleteness ==
    /\ phase = "done" /\ verdict = "UNSAT"
    /\ formula = case_4
    /\ engine = "par" /\ tasks > 1

\* C3 (engine agreement, verdict determinism): every solver run on a formula,
\* sequential or parallel at any depth, whatever its random choices and the
\* order in which its tasks end, gives the verdict the solvers run before it on
\* the same formula gave.
EngineAgreement == phase = "done" => \A v \in seen : v = verdict

WitnessEngineAgreement ==
    /\ phase = "done" /\ seen # {}
    /\ engine = "par" /\ tasks > 0 /\ decisions > 1

\* C4 (empty clause): a formula that holds an empty clause is answered UNSAT at
\* once: no unit propagation, no decision, no panic.
EmptyClauseIsUnsat ==
    (phase = "done" /\ \E i \in 1..Len(formula) : formula[i] = ClauseRef_new)
        => (verdict = "UNSAT" /\ units = 0 /\ decisions = 0)

\* C5 (zero clauses): the formula without clauses evaluates to SAT under every
\* assignment, and solve() on it returns SAT from the root call: no unit
\* propagation, no decision, no task, no recursion.
ZeroClausesIsSat ==
    (formula = CNF_new /\ phase \in {"solving", "done"}) =>
        /\ \A m \in UNION {[D -> Values] : D \in SUBSET (1..NumVars)} :
                CNF_evaluate(formula, m) = CNFValue_SAT
        /\ units = 0 /\ decisions = 0 /\ tasks = 0
        /\ DOMAIN frames \subseteq {Root}
        /\ phase = "done" => verdict = "SAT"

WitnessZeroClauses ==
    /\ formula = CNF_new /\ phase = "done" /\ verdict = "SAT"
    /\ engine = "par" /\ par_factor > 0

\* C6 (ClauseRef::evaluate): the result is True iff some literal is True under m;
\* failing that, it is False iff every literal is False; failing that, it is the
\* clause of exactly the literals that are Unassigned under m.
ClauseEvaluateContract ==
    eout.op = "clause" =>
        LET c == formula[eout.i]
            someTrue == \E l \in c : SignedLiteral_evaluate(l, eout.m) = "True"
            allFalse == \A l \in c : SignedLiteral_evaluate(l, eout.m) = "False"
        IN  /\ eout.val.tag = "True" <=> someTrue
            /\ ~someTrue => (eout.val.tag = "False" <=> allFalse)
            /\ (~someTrue /\ ~allFalse) =>
                    eout.val = ClauseValue_Clause(
                        {l \in c : SignedLiteral_evaluate(l, eout.m) = "Unassigned"})

\* C7 (an empty residual is False): ClauseRef::evaluate never returns a clause
\* without literals, also for a clause that has none to begin with.
NoEmptyResidual ==
    eout.op = "clause" => ~(eout.val.tag = "Clause" /\ eout.val.literals = {})

\* The indices of the clauses of f that evaluate to a residual clause under m
Undetermined(f, m) == {i \in 1..Len(f) : ClauseRef_evaluate(f[i], m).tag = "Clause"}

\* The k-th smallest element of the set of numbers S
Nth(S, k) == CHOOSE i \in S : Cardinality({j \in S : j < i}) = k - 1

\* C8 (CNF::evaluate): the result is UNSAT iff some clause evaluates to False; it
\* is SAT iff every clause evaluates to True; otherwise it is the formula of the
\* residual clauses of the clauses that are neither, in the order of the input.
CNFEvaluateContract ==
    eout.op = "cnf" =>
        LET f == formula
            cv(i) == ClauseRef_evaluate(f[i], eout.m)
            someFalse == \E i \in 1..Len(f) : cv(i).tag = "False"
            allTrue == \A i \in 1..Len(f) : cv(i).tag = "True"
            und == Undetermined(f, eout.m)
        IN  /\ eout.val.tag = "UNSAT" <=> someFalse
            /\ eout.val.tag = "SAT" <=> allTrue
            /\ (~someFalse /\ ~allTrue) =>
                    eout.val = CNFValue_Formula(
                        [k \in 1..Cardinality(und) |-> cv(Nth(und, k)).literals])

WitnessCNFEvaluate ==
    /\ eout.op = "cnf" /\ eout.val.tag = "Formula"
    /\ Len(eout.val.clauses) >= 2
    /\ eout.val.clauses[1] # eout.val.clauses[2]
    /\ \A k \in 1..Len(eout.val.clauses) : eout.val.clauses[k] # {}
    /\ \E k \in 1..Len(eout.val.clauses) : \A i \in 1..Len(formula) :
            eout.val.clauses[k] # formula[i]

\* C9 (sorted insertion): after any sequence of add_clause calls the clauses are
\* in ascending order of size.
SortedBySize ==
    \A i \in 1..(Len(formula) - 1) :
        Cardinality(formula[i]) <= Cardinality(formula[i + 1])

\* m2 binds every variable m binds, to the same value
Extends(m2, m) == \A v \in DOMAIN m : v \in DOMAIN m2 /\ m2[v] = m[v]

\* C10 (monotonicity): a clause that is True (False) under m is True (False)
\* under every extension of m; a formula that is SAT (UNSAT) under m is SAT
\* (UNSAT) under every extension of m; and a decided CNFValue evaluates to
\* itself under any assignment.
Monotonicity ==
    /\ (eout.op = "clause2" /\ Extends(eout.m2, eout.m)) =>
            /\ eout.val.tag = "True" => eout.val2.tag = "True"
            /\ eout.val.tag = "False" => eout.val2.tag = "False"
    /\ (eout.op = "cnf2" /\ Extends(eout.m2, eout.m)) =>
            /\ eout.val.tag = "SAT" => eout.val2.tag = "SAT"
            /\ eout.val.tag = "UNSAT" => eout.val2.tag = "UNSAT"
    /\ (eout.op = "value" /\ eout.val.tag \in {"SAT", "UNSAT"}) =>
            eout.val2 = eout.val

WitnessMonotonicity ==
    /\ eout.op = "value" /\ eout.val.tag = "UNSAT"
    /\ DOMAIN eout.m # {}
    /\ DOMAIN eout.m2 # DOMAIN eout.m

\* C11 (pure_literals): the set returned is exactly the set of the signed
\* literals of the formula whose complement occurs in no clause, whatever the
\* order in which the literals of a clause are scanned.
PureLiteralsExact ==
    eout.op = "pure" =>
        eout.val = {l \in iter_literals(formula) :
                        complement(l) \notin iter_literals(formula)}

WitnessPureLiterals ==
    /\ eout.op = "pure" /\ eout.val # {}
    /\ Len(formula) >= 3
    /\ \E l \in iter_literals(formula) : complement(l) \in iter_literals(formula)

\* The literals of f whose complement occurs in no clause of f
PureSet(f) == {l \in iter_literals(f) : complement(l) \notin iter_literals(f)}

\* C12 (pure-literal soundness): the search started from the empty assignment
\* gives the verdict solve() gave with its pure-literal pass, in the same
\* engine at the same depth; and under the assignment of the pure-literal pass
\* no clause that holds a pure literal evaluates to False.
PrepassKeepsVerdict ==
    /\ (phase = "done" /\ seen # {}) => seen = {verdict}
    /\ (phase = "solving" /\ seen = {} /\ Root \in DOMAIN frames) =>
            \A i \in 1..Len(formula) :
                formula[i] \cap PureSet(formula) # {}
                    => ClauseRef_evaluate(formula[i], frames[Root].m).tag # "False"

WitnessPrepass ==
    /\ phase = "done" /\ seen # {} /\ verdict = "SAT"
    /\ PureSet(formula) # {}
    /\ units > 0 /\ decisions > 0
    /\ engine = "par" /\ tasks > 0

\* The clauses of minimum size of f
MinClauses(f) ==
    {i \in 1..Len(f) : \A j \in 1..Len(f) : Cardinality(f[i]) <= Cardinality(f[j])}

\* The variables of the clauses of minimum size of f
MinClauseVars(f) == {literal(l) : l \in UNION {f[i] : i \in MinClauses(f)}}

\* The occurrences of variable v in f, in both polarities
Occurrences(f, v) ==
    Cardinality({<<i, l>> \in (1..Len(f)) \X Literals(HeurVars) :
                    l \in f[i] /\ literal(l) = v})

\* C13 (mom): for a formula with clauses, mom(k) lists the k variables of the
\* highest occurrence count among the variables of all the clauses of minimum
\* size, in non-increasing order of count, at most k of them; for the formula
\* without clauses it is the empty list.
MomContract ==
    eout.op = "mom" =>
        LET f == formula
            r == eout.val
            cand == MinClauseVars(f)
        IN  IF f = <<>> THEN r = <<>>
            ELSE /\ Len(r) <= eout.k
                 /\ \A a \in 1..Len(r) : r[a] \in cand
                 /\ \A a, b \in 1..Len(r) :
                        a < b => Occurrences(f, r[a]) >= Occurrences(f, r[b])
                 /\ \A a \in 1..Len(r) : \A v \in cand :
                        (\A b \in 1..Len(r) : r[b] # v)
                            => Occurrences(f, v) <= Occurrences(f, r[a])

\* C14 (first SAT wins): a parallel decision node that has returned gave SAT
\* iff one of its tasks reported SAT, and UNSAT iff every task reported UNSAT,
\* whatever the order in which its tasks ran and ended.
FirstSatWins ==
    \A path \in DOMAIN frames :
        (frames[path].st = "ret" /\ frames[path].task # <<>>) =>
            LET task == frames[path].task
            IN  /\ frames[path].val = "SAT" <=> \E i \in DOMAIN task : task[i] = "SAT"
                /\ frames[path].val = "UNSAT" <=> \A i \in DOMAIN task : task[i] = "None"

WitnessFirstSatWins ==
    \E path \in DOMAIN frames :
        /\ frames[path].st = "ret" /\ frames[path].val = "SAT"
        /\ frames[path].task = <<"SAT", "None">>

\* The decision nodes that fan out among the call at path and its callers
ParNodes(path) == {k \in 0..Len(path) : frames[SubSeq(path, 1, k)].st = "par"}

\* C15 (depth budget): the root call has remaining depth par_factor; the tasks
\* of a parallel decision have one less than their node, every other call has
\* the remaining depth of its caller; a node fans out only with remaining depth
\* above 0 and branches sequentially at 0; at most par_factor nodes fan out on a
\* path; a unit propagation and a sequential decision hold no task; with
\* par_factor 0 no task is started.
DepthBudget ==
    /\ \A path \in DOMAIN frames :
        LET fr == frames[path]
        IN  /\ path = Root => fr.remaining_depth = par_factor
            /\ path # Root =>
                    fr.remaining_depth =
                        IF frames[Parent(path)].st = "par"
                        THEN frames[Parent(path)].remaining_depth - 1
                        ELSE frames[Parent(path)].remaining_depth
            /\ fr.st = "par" => fr.remaining_depth > 0
            /\ (engine = "par" /\ fr.st \in {"first", "second"}) => fr.remaining_depth = 0
            /\ fr.st \in {"unit", "first", "second"} => fr.task = <<>>
            /\ Cardinality(ParNodes(path)) <= par_factor
    /\ par_factor = 0 => tasks = 0

WitnessDepthBudget ==
    /\ engine = "par" /\ par_factor > 0
    /\ \E path \in DOMAIN frames :
        /\ frames[path].st \in {"first", "second"}
        /\ frames[Parent(path)].st = "unit"
        /\ ParNodes(path) # {}

\* C16 (fan-out over candidate variables): the tasks that run together at a
\* parallel decision node are on different candidate variables, one task per
\* variable.
CandidateFanOut ==
    \A path \in DOMAIN frames :
        frames[path].st = "par" =>
            \A i, j \in DOMAIN frames[path].task :
                (/\ i # j
                 /\ Append(path, i) \in DOMAIN frames
                 /\ Append(path, j) \in DOMAIN frames)
                    => DOMAIN frames[Append(path, i)].m # DOMAIN frames[Append(path, j)].m

\* The integers of an integer clause
Range(q) == {q[i] : i \in 1..Len(q)}

\* The literal the integer n stands for: the variable |n|, negated when n < 0
Stands(n) == IF n > 0 THEN Id(IF n < 0 THEN 0 - n ELSE n)
             ELSE Not(IF n < 0 THEN 0 - n ELSE n)

\* C17 (formula from integer clauses): the conversion returns a formula; the
\* formula has one clause per input clause; the clause of an input clause is
\* the set of the literals its integers stand for (variable |n|, negated when
\* n < 0; |n| is no name that abs() can return when n is i32::MIN), a repeated
\* integer giving one literal; and a binding of the variable |n| gives a value
\* to every occurrence of that magnitude, in every clause and in both
\* polarities.
FromDimacsContract ==
    /\ phase # "panic"
    /\ phase = "converted" =>
        LET d == eout.input
            n == Len(d)
        IN  /\ Len(formula) = n
            /\ \A i \in 1..n : \A x \in Range(d[i]) : x # MinI32
            /\ \E pi \in {q \in [1..n -> 1..n] : \A a, b \in 1..n : a # b => q[a] # q[b]} :
                    \A i \in 1..n :
                        /\ formula[pi[i]] = {Stands(x) : x \in Range(d[i])}
                        /\ Cardinality(formula[pi[i]]) = Cardinality(Range(d[i]))
            /\ \A i \in 1..n : \A x \in Range(d[i]) : \A value \in Values :
                    \A j \in 1..n : \A l \in formula[j] :
                        literal(l) = literal(Stands(x)) =>
                            SignedLiteral_evaluate(l,
                                assign(Assignments_new, literal(Stands(x)), value))
                            = (IF l.tag = "Id" THEN value ELSE negate(value))

\* The clauses of one literal of f
UnitClauses(f) == {i \in 1..Len(f) : Cardinality(f[i]) = 1}

\* The assignment that holds the one binding that satisfies the literal l
Forced(l) == (literal(l) :> (IF l.tag = "Id" THEN "True" ELSE "False"))

\* C18 (unit propagation before decisions): a node that has decided, in either
\* engine, has a residual formula without unit clause; a node whose residual
\* formula has one has recursed on that residual formula with the assignment
\* that holds only the binding satisfying the literal of its first unit clause.
UnitBeforeDecision ==
    \A path \in DOMAIN frames :
        LET fr == frames[path]
        IN  fr.st \in {"unit", "first", "second", "par"} =>
                /\ CNFValue_evaluate(fr.formula, fr.m) = CNFValue_Formula(fr.f)
                /\ fr.st # "unit" => UnitClauses(fr.f) = {}
                /\ fr.st = "unit" =>
                    /\ UnitClauses(fr.f) # {}
                    /\ Append(path, 1) \in DOMAIN frames
                    /\ frames[Append(path, 1)].formula = CNFValue_Formula(fr.f)
                    /\ \E l \in fr.f[Nth(UnitClauses(fr.f), 1)] :
                            frames[Append(path, 1)].m = Forced(l)

WitnessUnitBeforeDecision ==
    \E path \in DOMAIN frames :
        /\ path # Root
        /\ frames[path].st = "unit"
        /\ Cardinality({frames[path].f[i] : i \in UnitClauses(frames[path].f)}) >= 2
        /\ Len(frames[path].f) > Cardinality(UnitClauses(frames[path].f))

\* A decision without fan-out has the recursion with p = True under way, or
\* after it the one with p = False, on the node's residual formula
BranchingState ==
    \A path \in DOMAIN frames :
        LET fr == frames[path]
        IN  /\ fr.st = "first" =>
                /\ Append(path, 1) \in DOMAIN frames
                /\ Append(path, 2) \notin DOMAIN frames
                /\ frames[Append(path, 1)].formula = CNFValue_Formula(fr.f)
                /\ frames[Append(path, 1)].m = (fr.p :> "True")
            /\ fr.st = "second" =>
                /\ Append(path, 2) \in DOMAIN frames
                /\ Append(path, 1) \notin DOMAIN frames
                /\ frames[Append(path, 2)].formula = CNFValue_Formula(fr.f)
                /\ frames[Append(path, 2)].m = (fr.p :> "False")

\* What a decision without fan-out does when a recursion of it has returned
BranchingStep ==
    \A path \in DOMAIN frames :
        (path \in DOMAIN frames' /\ frames'[path] # frames[path]) =>
            LET fr == frames[path]
                one == frames[Append(path, 1)]
                two == frames[Append(path, 2)]
            IN  /\ (fr.st = "first" /\ one.st = "ret" /\ one.val = "SAT") =>
                        /\ frames'[path].st = "ret" /\ frames'[path].val = "SAT"
                        /\ Append(path, 2) \notin DOMAIN frames'
                /\ (fr.st = "first" /\ one.st = "ret" /\ one.val = "UNSAT") =>
                        frames'[path].st = "second"
                /\ (fr.st = "second" /\ two.st = "ret") =>
                        /\ frames'[path].st = "ret"
                        /\ frames'[path].val = two.val

\* C19 (sequential branching order): a decision of the sequential engine, or of
\* the parallel engine at remaining depth 0, first recurses with p = True; when
\* that returns SAT the node returns SAT and p = False is never tried; when it
\* returns UNSAT the node recurses with p = False on the same residual formula
\* and returns what that recursion returns.
BranchingOrder == []BranchingState /\ [][BranchingStep]_vars

WitnessBranchingOrder ==
    \E path \in DOMAIN frames :
        /\ frames[path].st = "second"
        /\ Append(path, 2) \in DOMAIN frames
        /\ frames[Append(path, 2)].st = "ret"
        /\ frames[Append(path, 2)].val = "SAT"

\* C20 (heuristic at every decision): the variable of a decision, at any depth,
\* is the first variable of mom(1) on the node's residual formula whenever that
\* list is not empty.
HeuristicAtEveryDecision ==
    \A path \in DOMAIN frames :
        LET fr == frames[path]
        IN  (/\ fr.st \in {"first", "second", "par"}
             /\ \A r \in mom(fr.f, 1) : r # <<>>)
                => fr.p \in {r[1] : r \in mom(fr.f, 1)}

\* The call at path and its callers
Prefixes(path) == {SubSeq(path, 1, k) : k \in 0..Len(path)}

\* The variables of the residual formula of the call at path
ResidualVars(path) ==
    IF Residual(path).tag = "Formula" THEN VarsOf(Residual(path).clauses) ELSE {}

\* C21 (choice from the unassigned set): the variable of a decision, by mom or
\* at random, occurs in the node's residual formula; no variable is bound twice
\* among a call and its callers (pure-literal pass, unit propagations,
\* decisions); and the residual formula of a call mentions no variable bound by
\* the call or its callers.
ChoiceFromUnassigned ==
    \A path \in DOMAIN frames :
        /\ frames[path].st \in {"first", "second", "par"} =>
                frames[path].p \in ResidualVars(path)
        /\ \A q \in Prefixes(path) :
                DOMAIN frames[q].m \cap ResidualVars(path) = {}
        /\ \A q1, q2 \in Prefixes(path) :
                q1 # q2 => DOMAIN frames[q1].m \cap DOMAIN frames[q2].m = {}

WitnessChoiceFromUnassigned ==
    \E path \in DOMAIN frames :
        /\ Len(path) >= 2
        /\ frames[path].st \in {"first", "par"}
        /\ frames[path].vdi = "RandomDecision"
        /\ DOMAIN frames[Root].m # {}
        /\ \E q \in Prefixes(path) : frames[q].st = "unit"

\* C22 (single-binding equivalence): for a formula without empty clause and
\* assignments m1, m2 on different variables, the formula evaluated under m1 and
\* the result under m2 alone is the CNFValue of the formula evaluated once
\* under m1 and m2 together: the same verdict, or the same residual clauses in
\* the same order.
SingleBinding ==
    (eout.op = "single" /\ \A i \in 1..Len(formula) : formula[i] # {}) =>
        eout.val2 = eout.val3

\* Both assignments bind a variable and both evaluations reduce a clause: the
\* formula under m1 is a residual formula other than the formula, and that
\* under m2 is a residual formula again, of two different clauses, other than
\* the first one
WitnessSingleBinding ==
    /\ eout.op = "single"
    /\ \A i \in 1..Len(formula) : formula[i] # {}
    /\ DOMAIN eout.m # {} /\ DOMAIN eout.m2 # {}
    /\ eout.val.tag = "Formula" /\ eout.val.clauses # formula
    /\ eout.val2.tag = "Formula" /\ eout.val2.clauses # eout.val.clauses
    /\ Len(eout.val2.clauses) = 2
    /\ eout.val2.clauses[1] # eout.val2.clauses[2]
    /\ eout.val3 = eout.val2

\* C23 (termination): on a formula without empty clause, the residual formula
\* of every recursive call has strictly fewer distinct variables than its
\* caller's, the depth of the recursion is at most the number of distinct
\* variables of the input plus one, and every run of solve(), whatever the
\* random choices and the fair schedule of the tasks, reaches a verdict SAT or
\* UNSAT.
WellFormed == \A i \in 1..Len(formula) : formula[i] # {}

FewerVariables ==
    WellFormed =>
        \A path \in DOMAIN frames :
            /\ Len(path) + 1 <= Cardinality(VarsOf(formula)) + 1
            /\ path # Root =>
                  /\ ResidualVars(path) \subseteq ResidualVars(Parent(path))
                  /\ ResidualVars(path) # ResidualVars(Parent(path))

Termination ==
    /\ []FewerVariables
    /\ (phase = "solving" /\ WellFormed) ~>
            (phase = "done" /\ verdict \in {"SAT", "UNSAT"})

WitnessTermination ==
    /\ phase = "done" /\ WellFormed
    /\ verdict \in {"SAT", "UNSAT"}
    /\ engine = "par" /\ par_factor > 0
    /\ decisions > 0 /\ units > 0 /\ tasks > 0
    /\ Cardinality(VarsOf(formula)) = NumVars

\* C24 (no panic on well-formed input): when every clause of the input has a
\* literal, the residual formula of every search node of either engine that is
\* not SAT or UNSAT has a clause and only clauses with a literal, so the random
\* choice has a candidate; no call and no task panics, a call that returned
\* returned SAT or UNSAT, and solve() unwraps SAT or UNSAT.
NoPanic ==
    WellFormed =>
        /\ \A path \in DOMAIN frames :
              /\ Residual(path).tag = "Formula" =>
                    /\ Residual(path).clauses # <<>>
                    /\ \A i \in 1..Len(Residual(path).clauses) :
                            Residual(path).clauses[i] # {}
                    /\ random_choice(Residual(path).clauses) # {}
              /\ frames[path].val \in {"none", "SAT", "UNSAT"}
              /\ frames[path].st = "ret" => frames[path].val \in {"SAT", "UNSAT"}
              /\ \A i \in DOMAIN frames[path].task : frames[path].task[i] # "panic"
        /\ phase = "done" => verdict \in {"SAT", "UNSAT"}

WitnessNoPanic ==
    /\ WellFormed
    /\ \E path \in DOMAIN frames :
          /\ path # Root
          /\ frames[path].vdi = "RandomDecision"
          /\ frames[path].st \in {"first", "par"}
          /\ frames[path].p \in random_choice(Residual(path).clauses)
          /\ Len(Residual(path).clauses) >= 2

\* A line that is neither empty, nor a comment, nor a header
is_clause_line(text) ==
    /\ trim(text) # <<>>
    /\ ~starts_with(trim(text), <<"c">>)
    /\ ~starts_with(trim(text), <<"p", " ", "c", "n", "f">>)

RECURSIVE token_stream(_)
\* The tokens of the clause lines of a file, in order
token_stream(lines) ==
    IF lines = <<>> THEN <<>>
    ELSE (IF is_clause_line(Head(lines)) THEN split_whitespace(Head(lines), <<>>) ELSE <<>>)
         \o token_stream(Tail(lines))

RECURSIVE split_at_zero(_, _)
\* The integer clauses of a token stream: the tokens between two "0", group
\* being those read since the last one; a group without integer is no clause
split_at_zero(tokens, group) ==
    LET clause == flat_map_parse(group)
        closed == IF clause # <<>> THEN <<clause>> ELSE <<>>
    IN  IF tokens = <<>> THEN closed
        ELSE IF Head(tokens) = <<"0">> THEN closed \o split_at_zero(Tail(tokens), <<>>)
        ELSE split_at_zero(Tail(tokens), Append(group, Head(tokens)))

\* C25 (DIMACS clause splitting): once parse_dimacs_cnf has read the whole
\* file, its integer clauses are those of the token stream of the clause lines
\* split at each "0", wherever the line breaks of the file fall; and build()
\* returns only when the number of clauses equals the count of the header.
ClauseSplitting ==
    (eout.op = "parse" /\ phase = "parsed") =>
        /\ eout.b.clauses = split_at_zero(token_stream(eout.file), <<>>)
        /\ eout.b.outcome = "built" => usize(Len(eout.b.clauses)) = eout.b.num_clauses

====
